---- MODULE Spec2Model ----
(***************************************************************************)
(* Model of 3zero.py: the network mode state machine (RADIO_OFF / CLIENT / *)
(* ACCESS_POINT, driven by the WiFi and AP buttons through sequences of    *)
(* external commands) and the exposure / capture / self-timer handlers.    *)
(*                                                                         *)
(* A network handler blocks the Qt event loop while it runs its commands.  *)
(* It is modelled one external command per step: `net` is the position of  *)
(* the running handler (function, index of the next command, locals), and  *)
(* no other event-loop callback is delivered until it is back to "idle".   *)
(* The camera and timer handlers are short and are one action each.        *)
(***************************************************************************)
EXTENDS Integers, Sequences, FiniteSets, TLC

VARIABLES
    is_wifi_on,             \* global, 3zero.py:135
    is_ap_mode_active,      \* global, 3zero.py:136
    btn_wifi_red,           \* btn_wifi carries active_style_sheet_red
    btn_ap_red,             \* btn_ap carries active_style_sheet_red
    btn_ap_enabled,         \* btn_ap.isEnabled()
    net,                    \* position of the running network handler
    ev_handler,             \* the event-loop callback running or last run
    ev_pre,                 \* the recorded state when that callback started
    net_trace,              \* commands it has issued, in order
    ev_arg,                 \* the label of the exposure button it was given
    toggles,                \* consecutive clicks on one exposure button
    active_exposure_button, \* global, 3zero.py:133 (the button's label)
    current_manual_settings,\* global, 3zero.py:137
    exp_btn_red,            \* exposure buttons carrying the red style
    cam_started,            \* picam2.started
    is_timer_countdown_active, \* global, 3zero.py:134
    btn_timer_red,          \* btn_timer carries active_style_sheet_red
    pending,                \* QTimer.singleShot callbacks not yet fired
    fired,                  \* the callback delayed_capture_and_reset ran for
    cam_trace,              \* picam2 calls of the event-loop callback
    gpio_pc,                \* position of handle_capture_press (gpiozero)
    gpio_handler,           \* what the last physical press did
    gpio_trace              \* picam2 calls of handle_capture_press

netvars == <<is_wifi_on, is_ap_mode_active, btn_wifi_red, btn_ap_red,
             btn_ap_enabled, net, net_trace>>
expvars == <<active_exposure_button, current_manual_settings, exp_btn_red,
             cam_started>>
timervars == <<is_timer_countdown_active, btn_timer_red, pending>>
gpiovars == <<gpio_pc, gpio_handler, gpio_trace>>
camvars == <<expvars, timervars, cam_trace, fired>>
vars == <<netvars, ev_handler, ev_pre, ev_arg, toggles, camvars, gpiovars>>

-----------------------------------------------------------------------------
(* Command executor                                                        *)

CommandOutcome == {"Success", "Failure", "TimedOut", "NotFound"}

\* run_system_command: True on exit code 0; on a nonzero exit, True exactly
\* when ignore_fail; False on FileNotFoundError and TimeoutExpired whatever
\* ignore_fail is.
run_system_command(outcome, ignore_fail) ==
    CASE outcome = "Success" -> TRUE
      [] outcome = "Failure" -> ignore_fail
      [] OTHER -> FALSE

\* The command lists of the five command sequences, in source order.
startup_commands ==
    << [cmd |-> "rfkill_unblock",   ignore_fail |-> FALSE],
       [cmd |-> "nmcli_up_client",  ignore_fail |-> TRUE],
       [cmd |-> "start_nmbd",       ignore_fail |-> FALSE],
       [cmd |-> "start_smbd",       ignore_fail |-> FALSE] >>

start_client_mode_cmds ==
    << [cmd |-> "rfkill_unblock",   ignore_fail |-> FALSE],
       [cmd |-> "enable_dnsmasq",   ignore_fail |-> TRUE],
       [cmd |-> "start_dnsmasq",    ignore_fail |-> TRUE],
       [cmd |-> "nmcli_up_client",  ignore_fail |-> TRUE],
       [cmd |-> "start_nmbd",       ignore_fail |-> FALSE],
       [cmd |-> "start_smbd",       ignore_fail |-> FALSE] >>

stop_client_mode_cmds ==
    << [cmd |-> "nmcli_down_client", ignore_fail |-> TRUE],
       [cmd |-> "stop_smbd",         ignore_fail |-> TRUE],
       [cmd |-> "stop_nmbd",         ignore_fail |-> TRUE] >>

\* Entry 5 is time.sleep(AP_STABILIZE_DELAY_S), not a command.
start_ap_mode_cmds ==
    << [cmd |-> "rfkill_unblock",   ignore_fail |-> FALSE],
       [cmd |-> "stop_dnsmasq",     ignore_fail |-> TRUE],
       [cmd |-> "disable_dnsmasq",  ignore_fail |-> TRUE],
       [cmd |-> "nmcli_hotspot",    ignore_fail |-> FALSE],
       [cmd |-> "sleep",            ignore_fail |-> FALSE],
       [cmd |-> "start_nmbd",       ignore_fail |-> FALSE],
       [cmd |-> "start_smbd",       ignore_fail |-> FALSE] >>

stop_ap_mode_cmds ==
    << [cmd |-> "nmcli_down_ap",    ignore_fail |-> TRUE],
       [cmd |-> "nmcli_delete_ap",  ignore_fail |-> TRUE],
       [cmd |-> "stop_smbd",        ignore_fail |-> TRUE],
       [cmd |-> "stop_nmbd",        ignore_fail |-> TRUE] >>

-----------------------------------------------------------------------------
(* Positions                                                               *)

Idle == [fn |-> "idle", step |-> 0, reverting |-> FALSE,
         success |-> TRUE, hotspot_started |-> FALSE]

\* Entering a function: its locals are initialised (success = True,
\* hotspot_started = False) and its first command is next.
Enter(f, rev) == [fn |-> f, step |-> 1, reverting |-> rev,
                  success |-> TRUE, hotspot_started |-> FALSE]

\* One entry of net_trace: the function running, the command it issued
\* ("enter" as the function is called), whether the function runs as the
\* revert of a failed switch, and whether the command is a hard requirement
\* that failed (run_system_command returned False without ignore_fail).
Entry(f, c, rev, failed) == [fn |-> f, cmd |-> c, rev |-> rev, failed |-> failed]

\* A log entry of a command that ran, with what run_system_command returned.
Ran(e, returned) == [returned |-> returned] @@ e

\* The recorded state a callback starts from.
Snapshot == [wifi |-> is_wifi_on, ap |-> is_ap_mode_active,
             active |-> active_exposure_button,
             cms |-> current_manual_settings,
             timer |-> is_timer_countdown_active,
             gpio |-> gpio_pc]

NoSnapshot == [wifi |-> FALSE, ap |-> FALSE, active |-> "None",
               cms |-> [none |-> TRUE], timer |-> FALSE, gpio |-> "idle"]

\* No callback has fired in the current event-loop callback.
NoFired == [none |-> TRUE]

\* ev_handler, ev_pre, ev_arg, net_trace, cam_trace and fired describe
\* the event-loop callback that is running or has just returned, and
\* gpio_handler and gpio_trace the physical press likewise. The description
\* of a callback that has returned is dropped at the next step taken by
\* anything else.
\*
\* A network handler shares no variable with the physical press and the
\* clock, so their steps are not interleaved with its commands: each such
\* interleaving reaches the states that running them before or after it does.
OtherThanEventLoop ==
    /\ net.fn = "idle"
    /\ ev_handler' = "none"
    /\ ev_pre' = NoSnapshot
    /\ ev_arg' = "None"
    /\ net_trace' = <<>>
    /\ cam_trace' = <<>>
    /\ fired' = NoFired
    /\ UNCHANGED toggles

OtherThanGpio ==
    /\ gpio_pc' = gpio_pc
    /\ IF gpio_pc = "idle"
         THEN gpio_handler' = "none" /\ gpio_trace' = <<>>
         ELSE UNCHANGED <<gpio_handler, gpio_trace>>

-----------------------------------------------------------------------------
(* Startup resynchronisation, 3zero.py:111-137 and 682-695                 *)

\* Mutant of startup_ok_after: allow_fail is not looked at.
startup_ok_after_no_allowance(i, ok, r) == ok /\ r

\* initial_services_ok after command i returned r.
startup_ok_after(i, ok, r) ==
    LET allow_fail == (i = 2)
    IN  IF ~r /\ ~allow_fail THEN FALSE ELSE ok

\* The loop body at 120-126 for a command whose outcome is o (lo is logged as
\* the value run_system_command returned),
\* and lines 127-137 and 682-695 after the last one.
startup_run(o, lo) ==
         LET c  == startup_commands[net.step]
             r  == run_system_command(o, net.step = 2)
             ok == startup_ok_after(net.step, net.success, r)
         IN  /\ net_trace' = Append(net_trace,
                                    Ran(Entry("startup", c.cmd, FALSE,
                                              ~c.ignore_fail /\ ~r), lo))
             /\ IF net.step < Len(startup_commands)
                  THEN /\ net' = [net EXCEPT !.step = @ + 1, !.success = ok]
                       /\ UNCHANGED <<is_wifi_on, is_ap_mode_active,
                                      btn_wifi_red, btn_ap_red, btn_ap_enabled>>
                  ELSE /\ net' = Idle
                       /\ is_wifi_on' = ok
                       /\ is_ap_mode_active' = FALSE
                       /\ btn_wifi_red' = ok
                       /\ btn_ap_red' = FALSE
                       /\ btn_ap_enabled' = ok

startup_step ==
    /\ net.fn = "startup"
    /\ \E o \in CommandOutcome :
         startup_run(o, run_system_command(o, net.step = 2))
    /\ UNCHANGED <<ev_handler, ev_pre, ev_arg, toggles, camvars>>
    /\ OtherThanGpio

-----------------------------------------------------------------------------
(* start_client_mode, 3zero.py:153-175                                     *)

Globals == <<is_wifi_on, is_ap_mode_active, btn_wifi_red, btn_ap_red,
             btn_ap_enabled>>

\* Mutant of client_success_after: the result of every command is looked at.
client_success_after_every_result(i, success, r) == success /\ r

\* Mutant of client_success_after: the result of start smbd is not looked at.
client_success_after_ignoring_smbd(i, success, r) ==
    IF i \in {1, 5} THEN success /\ r ELSE success

\* The local `success` after command i returned r: only the unblock (158),
\* nmbd (172) and smbd (173) results are looked at.
client_success_after(i, success, r) ==
    IF i \in {1, 5, 6} THEN success /\ r ELSE success

\* Mutant of client_next: start smbd is not guarded by `if success` (173).
client_next_unguarded_smbd(i, success) ==
    CASE i \in {1, 2} -> i + 1
      [] i \in {3, 4} -> IF success THEN i + 1 ELSE 0
      [] i = 5 -> 6
      [] OTHER -> 0

\* Mutant of client_next: the function starts over when success is lost.
client_next_retrying(i, success) ==
    CASE i \in {1, 2} -> i + 1
      [] i \in {3, 4, 5} -> IF success THEN i + 1 ELSE 1
      [] OTHER -> 0

\* The next command after command i, 0 for `return success`: the two dnsmasq
\* commands always run, the later ones only while success holds.
client_next(i, success) ==
    CASE i \in {1, 2} -> i + 1
      [] i \in {3, 4, 5} -> IF success THEN i + 1 ELSE 0
      [] OTHER -> 0

-----------------------------------------------------------------------------
(* start_ap_mode, 3zero.py:189-237                                         *)

\* `success` after step i returned r: unblock (196), hotspot (211-219),
\* nmbd (228) and smbd (231) are the steps whose result is looked at.
ap_success_after(i, success, r) ==
    IF i \in {1, 4, 6, 7} THEN success /\ r ELSE success

ap_hotspot_after(i, hotspot_started, r) ==
    IF i = 4 /\ r THEN TRUE ELSE hotspot_started

\* Mutant of ap_next: the sleep comes after the two Samba starts.
ap_next_sleeping_last(i, success, hotspot_started) ==
    CASE i = 1 -> IF success THEN 2 ELSE 0
      [] i \in {2, 3} -> i + 1
      [] i = 4 -> IF success /\ hotspot_started THEN 6 ELSE 0
      [] i = 6 -> 7
      [] i = 7 -> 5
      [] OTHER -> 0

\* Mutant of ap_next: the block at 222 is entered whatever the hotspot did.
ap_next_unguarded_block(i, success, hotspot_started) ==
    CASE i = 1 -> IF success THEN 2 ELSE 0
      [] i \in {2, 3, 4, 5, 6} -> i + 1
      [] OTHER -> 0

\* The next step after step i, 0 for `return success`. Steps 2-4 are guarded
\* by `if success` (201, 210); the sleep and both Samba starts are one block
\* guarded once by `if success and hotspot_started` (222).
ap_next(i, success, hotspot_started) ==
    CASE i = 1 -> IF success THEN 2 ELSE 0
      [] i \in {2, 3} -> i + 1
      [] i = 4 -> IF success /\ hotspot_started THEN 5 ELSE 0
      [] i \in {5, 6} -> i + 1
      [] OTHER -> 0

-----------------------------------------------------------------------------
(* stop_client_mode 177-186, stop_ap_mode 239-250: every result discarded  *)

\* Mutant of stop_ap_mode_result: the function reports a failed teardown.
stop_ap_mode_result_failed == FALSE

stop_client_mode_result == TRUE
stop_ap_mode_result == TRUE

-----------------------------------------------------------------------------
(* on_wifi_button_clicked, 3zero.py:293-343                                *)

on_wifi_button_clicked ==
    /\ net.fn = "idle"
    /\ gpio_pc = "idle"
    /\ cam_trace' = <<>>
    /\ fired' = NoFired
    /\ UNCHANGED <<expvars, timervars>>
    /\ OtherThanGpio
    /\ ev_handler' = (IF ~is_wifi_on THEN "wifi_on" ELSE "wifi_off")
    /\ ev_pre' = Snapshot
    /\ UNCHANGED <<ev_arg, toggles>>
    /\ IF ~is_wifi_on
         THEN \* target_state_on: lines 301-304
              /\ is_ap_mode_active' = FALSE
              /\ btn_ap_red' = FALSE
              /\ net' = Enter("start_client_mode", FALSE)
              /\ net_trace' = <<Entry("start_client_mode", "enter", FALSE, FALSE)>>
              /\ UNCHANGED <<is_wifi_on, btn_wifi_red, btn_ap_enabled>>
         ELSE \* lines 318-325
              /\ net' = Enter(IF is_ap_mode_active THEN "stop_ap_mode"
                                                   ELSE "stop_client_mode", FALSE)
              /\ net_trace' = <<Entry(IF is_ap_mode_active THEN "stop_ap_mode"
                                        ELSE "stop_client_mode", "enter", FALSE, FALSE)>>
              /\ UNCHANGED Globals

\* Mutant of wifi_on_return: line 308 left out.
wifi_on_return_without_enabling(s, t) ==
    /\ net_trace' = t
    /\ IF s THEN /\ is_wifi_on' = TRUE
                 /\ btn_wifi_red' = TRUE
                 /\ net' = Idle
                 /\ UNCHANGED <<is_ap_mode_active, btn_ap_red, btn_ap_enabled>>
            ELSE /\ net' = [Idle EXCEPT !.fn = "rollback_block", !.step = 1]
                 /\ UNCHANGED Globals

\* Lines 304-314 once start_client_mode has returned s.
wifi_on_return(s, t) ==
    /\ net_trace' = t
    /\ IF s THEN /\ is_wifi_on' = TRUE
                 /\ btn_wifi_red' = TRUE
                 /\ btn_ap_enabled' = TRUE
                 /\ net' = Idle
                 /\ UNCHANGED <<is_ap_mode_active, btn_ap_red>>
            ELSE /\ net' = [Idle EXCEPT !.fn = "rollback_block", !.step = 1]
                 /\ UNCHANGED Globals

\* Lines 311-314: the radio is blocked again, the result is not looked at.
wifi_rollback_block ==
    /\ net.fn = "rollback_block"
    /\ \E o \in CommandOutcome :
         /\ net_trace' = Append(net_trace,
                                Ran(Entry("on_wifi_button_clicked", "rfkill_block",
                                          FALSE, FALSE), run_system_command(o, FALSE)))
         /\ is_wifi_on' = FALSE
         /\ btn_wifi_red' = FALSE
         /\ btn_ap_enabled' = FALSE
         /\ net' = Idle
    /\ UNCHANGED <<is_ap_mode_active, btn_ap_red, ev_handler, ev_pre, ev_arg,
                   toggles, camvars>>
    /\ OtherThanGpio

\* Lines 327-328 come after the teardown returned stop_success.
wifi_off_return(stop_success, t) ==
    /\ net_trace' = t
    /\ net' = [Idle EXCEPT !.fn = "rfkill_block", !.step = 1,
                           !.success = stop_success]
    /\ UNCHANGED Globals

\* Mutant of wifi_off_is_wifi_on: the result of the radio block is not
\* looked at.
wifi_off_ignoring_rfkill(stop_success, rfkill_success) ==
    IF stop_success THEN FALSE ELSE TRUE

\* is_wifi_on after lines 330-343.
wifi_off_is_wifi_on(stop_success, rfkill_success) ==
    IF stop_success /\ rfkill_success THEN FALSE ELSE TRUE

\* Mutant of wifi_off_block: line 333 left out.
wifi_off_block_keeping_ap ==
    /\ net.fn = "rfkill_block"
    /\ \E o \in CommandOutcome :
         LET rfkill_success == run_system_command(o, FALSE)
             on == wifi_off_is_wifi_on(net.success, rfkill_success)
         IN  /\ net_trace' = Append(net_trace,
                                    Ran(Entry("on_wifi_button_clicked", "rfkill_block",
                                              FALSE, ~rfkill_success), rfkill_success))
             /\ is_wifi_on' = on
             /\ btn_wifi_red' = on
             /\ btn_ap_enabled' = on
             /\ UNCHANGED <<is_ap_mode_active, btn_ap_red>>
             /\ net' = Idle
    /\ UNCHANGED <<ev_handler, ev_pre, ev_arg, toggles, camvars>>
    /\ OtherThanGpio

\* Lines 328-343.
wifi_off_block ==
    /\ net.fn = "rfkill_block"
    /\ \E o \in CommandOutcome :
         LET rfkill_success == run_system_command(o, FALSE)
             on == wifi_off_is_wifi_on(net.success, rfkill_success)
         IN  /\ net_trace' = Append(net_trace,
                                    Ran(Entry("on_wifi_button_clicked", "rfkill_block",
                                              FALSE, ~rfkill_success), rfkill_success))
             /\ is_wifi_on' = on
             /\ btn_wifi_red' = on
             /\ btn_ap_enabled' = on
             /\ IF on THEN UNCHANGED <<is_ap_mode_active, btn_ap_red>>
                      ELSE is_ap_mode_active' = FALSE /\ btn_ap_red' = FALSE
             /\ net' = Idle
    /\ UNCHANGED <<ev_handler, ev_pre, ev_arg, toggles, camvars>>
    /\ OtherThanGpio

-----------------------------------------------------------------------------
(* on_ap_button_clicked, 3zero.py:345-395                                  *)

\* Mutant of on_ap_button_clicked: lines 348-350 left out.
on_ap_button_clicked_unguarded ==
    /\ net.fn = "idle"
    /\ gpio_pc = "idle"
    /\ cam_trace' = <<>>
    /\ fired' = NoFired
    /\ UNCHANGED <<expvars, timervars>>
    /\ OtherThanGpio
    /\ ev_pre' = Snapshot
    /\ UNCHANGED <<ev_arg, toggles>>
    /\ UNCHANGED Globals
    /\ LET target_ap_on == ~is_ap_mode_active
           f == IF target_ap_on THEN "stop_client_mode" ELSE "stop_ap_mode"
       IN  /\ ev_handler' = (IF target_ap_on THEN "ap_on" ELSE "ap_off")
           /\ net' = Enter(f, FALSE)
           /\ net_trace' = <<Entry(f, "enter", FALSE, FALSE)>>

\* The handler is also modelled with the radio off, where it returns at once
\* (348-350).
on_ap_button_clicked ==
    /\ net.fn = "idle"
    /\ gpio_pc = "idle"
    /\ cam_trace' = <<>>
    /\ fired' = NoFired
    /\ UNCHANGED <<expvars, timervars>>
    /\ OtherThanGpio
    /\ ev_pre' = Snapshot
    /\ UNCHANGED <<ev_arg, toggles>>
    /\ UNCHANGED Globals
    /\ IF ~is_wifi_on
         THEN /\ ev_handler' = "ap_ignored"
              /\ net' = Idle
              /\ net_trace' = <<>>
         ELSE LET target_ap_on == ~is_ap_mode_active
                  f == IF target_ap_on THEN "stop_client_mode" ELSE "stop_ap_mode"
              IN  /\ ev_handler' = (IF target_ap_on THEN "ap_on" ELSE "ap_off")
                  /\ net' = Enter(f, FALSE)
                  /\ net_trace' = <<Entry(f, "enter", FALSE, FALSE)>>

\* Mutant of ap_mode_after: both branches record what the Client -> AP
\* branch records.
ap_mode_after_same_branches(target_ap_on, success) == success

\* is_ap_mode_active after lines 368-375 (target_ap_on) and 388-395.
ap_mode_after(target_ap_on, success) ==
    IF target_ap_on THEN success ELSE ~success

\* Lines 368-375 / 388-395: the handler's last assignments.
ap_finish(target_ap_on, success, t) ==
    /\ net_trace' = t
    /\ is_ap_mode_active' = ap_mode_after(target_ap_on, success)
    /\ btn_ap_red' = ap_mode_after(target_ap_on, success)
    /\ net' = Idle
    /\ UNCHANGED <<is_wifi_on, btn_wifi_red, btn_ap_enabled>>

\* Calling function f from the handler: its first command is next.
call(f, rev, t) ==
    /\ net_trace' = Append(t, Entry(f, "enter", rev, FALSE))
    /\ net' = Enter(f, rev)
    /\ UNCHANGED Globals

\* What the running handler does once start_client_mode has returned s:
\* WiFi-ON 304-314; AP -> Client 380-384; the revert of Client -> AP, whose
\* result is dropped (364).
start_client_mode_return(s, t) ==
    CASE ev_handler = "wifi_on" -> wifi_on_return(s, t)
      [] ev_handler = "ap_off" ->
           IF s THEN ap_finish(FALSE, TRUE, t)
                ELSE call("start_ap_mode", TRUE, t)
      [] OTHER -> ap_finish(TRUE, FALSE, t)

\* Once start_ap_mode has returned s: Client -> AP 360-364; the revert of
\* AP -> Client, whose result is dropped (384).
start_ap_mode_return(s, t) ==
    CASE ev_handler = "ap_on" ->
           IF s THEN ap_finish(TRUE, TRUE, t)
                ELSE call("start_client_mode", TRUE, t)
      [] OTHER -> ap_finish(FALSE, FALSE, t)

\* Once stop_client_mode has returned: WiFi-OFF 325-328; Client -> AP 358-366.
stop_client_mode_return(res, t) ==
    CASE ev_handler = "wifi_off" -> wifi_off_return(res, t)
      [] OTHER -> IF res THEN call("start_ap_mode", FALSE, t)
                         ELSE ap_finish(TRUE, FALSE, t)

\* Once stop_ap_mode has returned: WiFi-OFF 321-328; AP -> Client 379-386.
stop_ap_mode_return(res, t) ==
    CASE ev_handler = "wifi_off" -> wifi_off_return(res, t)
      [] OTHER -> IF res THEN call("start_client_mode", FALSE, t)
                         ELSE ap_finish(FALSE, FALSE, t)

-----------------------------------------------------------------------------
(* One command of the running function                                     *)

\* The next command of the function, with outcome o (lo is logged as the
\* value run_system_command returned).
start_client_mode_run(o, lo) ==
         LET c == start_client_mode_cmds[net.step]
             r == run_system_command(o, c.ignore_fail)
             s == client_success_after(net.step, net.success, r)
             n == client_next(net.step, s)
             t == Append(net_trace, Ran(Entry("start_client_mode", c.cmd, net.reverting,
                                              ~c.ignore_fail /\ ~r), lo))
         IN  IF n # 0
               THEN /\ net' = [net EXCEPT !.step = n, !.success = s]
                    /\ net_trace' = t
                    /\ UNCHANGED Globals
               ELSE start_client_mode_return(s, t)

start_client_mode_step ==
    /\ net.fn = "start_client_mode"
    /\ \E o \in CommandOutcome :
         start_client_mode_run(o, run_system_command(o, start_client_mode_cmds[net.step].ignore_fail))
    /\ UNCHANGED <<ev_handler, ev_pre, ev_arg, toggles, camvars>>
    /\ OtherThanGpio

start_ap_mode_run(o, lo) ==
         LET c == start_ap_mode_cmds[net.step]
             r == run_system_command(o, c.ignore_fail)
             s == ap_success_after(net.step, net.success, r)
             h == ap_hotspot_after(net.step, net.hotspot_started, r)
             n == ap_next(net.step, s, h)
             t == Append(net_trace, Ran(Entry("start_ap_mode", c.cmd, net.reverting,
                                              ~c.ignore_fail /\ ~r), lo))
         IN  IF n # 0
               THEN /\ net' = [net EXCEPT !.step = n, !.success = s,
                                          !.hotspot_started = h]
                    /\ net_trace' = t
                    /\ UNCHANGED Globals
               ELSE start_ap_mode_return(s, t)

\* Step 5, the sleep, has one outcome.
start_ap_mode_step ==
    /\ net.fn = "start_ap_mode"
    /\ \E o \in (IF net.step = 5 THEN {"Success"} ELSE CommandOutcome) :
         start_ap_mode_run(o, run_system_command(o, start_ap_mode_cmds[net.step].ignore_fail))
    /\ UNCHANGED <<ev_handler, ev_pre, ev_arg, toggles, camvars>>
    /\ OtherThanGpio

stop_client_mode_run(o, lo) ==
         LET c == stop_client_mode_cmds[net.step]
             t == Append(net_trace, Ran(Entry("stop_client_mode", c.cmd, FALSE, FALSE), lo))
         IN  IF net.step < Len(stop_client_mode_cmds)
               THEN /\ net' = [net EXCEPT !.step = @ + 1]
                    /\ net_trace' = t
                    /\ UNCHANGED Globals
               ELSE stop_client_mode_return(stop_client_mode_result, t)

stop_client_mode_step ==
    /\ net.fn = "stop_client_mode"
    /\ \E o \in CommandOutcome :
         stop_client_mode_run(o, run_system_command(o, stop_client_mode_cmds[net.step].ignore_fail))
    /\ UNCHANGED <<ev_handler, ev_pre, ev_arg, toggles, camvars>>
    /\ OtherThanGpio

stop_ap_mode_run(o, lo) ==
         LET c == stop_ap_mode_cmds[net.step]
             t == Append(net_trace, Ran(Entry("stop_ap_mode", c.cmd, FALSE, FALSE), lo))
         IN  IF net.step < Len(stop_ap_mode_cmds)
               THEN /\ net' = [net EXCEPT !.step = @ + 1]
                    /\ net_trace' = t
                    /\ UNCHANGED Globals
               ELSE stop_ap_mode_return(stop_ap_mode_result, t)

stop_ap_mode_step ==
    /\ net.fn = "stop_ap_mode"
    /\ \E o \in CommandOutcome :
         stop_ap_mode_run(o, run_system_command(o, stop_ap_mode_cmds[net.step].ignore_fail))
    /\ UNCHANGED <<ev_handler, ev_pre, ev_arg, toggles, camvars>>
    /\ OtherThanGpio

-----------------------------------------------------------------------------
(* Camera constants, 3zero.py:48-77                                        *)

\* The exposure buttons in the order the bottom bar creates them (719).
LabelOrder == <<"1", "1/2", "1/4", "1/15", "1/30", "1/60", "1/125", "1/250",
                "1/500", "1/1000">>

exposure_times ==
    ("1" :> 1000000) @@ ("1/2" :> 500000) @@ ("1/4" :> 250000) @@
    ("1/15" :> 66667) @@ ("1/30" :> 33333) @@ ("1/60" :> 16667) @@
    ("1/125" :> 8000) @@ ("1/250" :> 4000) @@ ("1/500" :> 2000) @@
    ("1/1000" :> 1000)

\* The model presses the first NumLabels exposure buttons.
NumLabels == 2
Labels == {LabelOrder[i] : i \in 1..NumLabels}

\* Python's None, for active_exposure_button and current_manual_settings.
NoButton == "None"
None == [none |-> TRUE]

general_settings ==
    [AeEnable |-> TRUE, AeMeteringMode |-> "Matrix", AwbEnable |-> TRUE,
     AwbMode |-> "Auto", AeConstraintMode |-> "Normal",
     AeExposureMode |-> "Normal"]

\* The dict built at 442-448 (AnalogueGain 1.0 is written 1).
manual_settings(label) ==
    [AnalogueGain |-> 1, AeEnable |-> FALSE,
     ExposureTime |-> exposure_times[label], AwbEnable |-> TRUE,
     AwbMode |-> "Auto"]

\* One call on picam2: its name, the controls it carries, whether it returned
\* (ok) or raised.
Call(name, arg, ok) == [call |-> name, arg |-> arg, ok |-> ok]

-----------------------------------------------------------------------------
(* Applying an exposure mode, 3zero.py:412-430 and 452-468                 *)

\* How the try blocks can go: set_controls returns; or it raises and the
\* fallback runs through; or stop(), create_preview_configuration/configure
\* or start() raises in the fallback.
ApplyOutcome == {"set_ok", "fallback_ok", "stop_raises", "configure_raises",
                 "start_raises"}

\* Mutant of apply_calls: the stop/configure/start cycle runs whether
\* set_controls raised or not.
apply_calls_always_reconfiguring(c, how) ==
    <<Call("set_controls", c, how = "set_ok"), Call("stop", None, TRUE),
      Call("configure", c, TRUE), Call("start", None, TRUE)>>

apply_calls(c, how) ==
    IF how = "set_ok" THEN <<Call("set_controls", c, TRUE)>>
    ELSE <<Call("set_controls", c, FALSE), Call("stop", None, how # "stop_raises")>>
         \o (IF how = "stop_raises" THEN <<>>
             ELSE <<Call("configure", c, how # "configure_raises")>>)
         \o (IF how \in {"fallback_ok", "start_raises"}
               THEN <<Call("start", None, how = "fallback_ok")>> ELSE <<>>)

\* picam2.started afterwards: a stop() that returned leaves the camera
\* stopped until a start() returns.
apply_started(started, how) ==
    CASE how \in {"set_ok", "stop_raises"} -> started
      [] how = "fallback_ok" -> TRUE
      [] OTHER -> FALSE

-----------------------------------------------------------------------------
(* save_image 554-596, reapply_manual_exposure_if_needed 254-263           *)

\* pre_ok: makedirs and create_still_configuration returned, so the capture
\* primitive is reached; cap_ok: switch_mode_and_capture_file returned.
\* Every exception is caught at 594. The still configuration carries a copy
\* of current_manual_settings when that is set, and no controls otherwise.
save_image_calls(cms, pre_ok, cap_ok) ==
    <<Call("save_image", None, TRUE)>>
    \o (IF pre_ok THEN <<Call("switch_mode_and_capture_file", cms, cap_ok)>>
                  ELSE <<>>)

\* The call is logged as made: whether it returned or raised is not told
\* apart, the exception being caught at 262 with nothing else done.
reapply_calls(cms) ==
    IF cms # None THEN <<Call("set_controls", cms, TRUE)>> ELSE <<>>

-----------------------------------------------------------------------------
(* on_exposure_button_clicked, 3zero.py:398-468                            *)

\* A callback of the event loop starts: no network handler is running, and
\* the logs now describe this callback.
EventLoopCallback(name) ==
    /\ net.fn = "idle"
    /\ ev_handler' = name
    /\ ev_pre' = Snapshot
    /\ net_trace' = <<>>
    /\ UNCHANGED <<Globals, net>>

\* Mutant of exposure_button_after: a click on the active button keeps it.
exposure_button_after_sticky(active, label) == label

\* active_exposure_button after a click on `label` (406-410, 439).
exposure_button_after(active, label) ==
    IF active = label THEN NoButton ELSE label

\* Mutant of manual_settings_after: the stored controls are not cleared on
\* the way back to Auto (410 left out).
manual_settings_after_not_cleared(active, label) == manual_settings(label)

\* current_manual_settings after a click on `label` (410, 450).
manual_settings_after(active, label) ==
    IF active = label THEN None ELSE manual_settings(label)

\* Mutant of exposure_red_after: the previous button is not reset (434-435
\* left out).
exposure_red_after_stacked(red, active, label) ==
    IF active = label THEN red \ {label} ELSE red \cup {label}

\* The buttons in red after a click on `label` (408, 434-438).
exposure_red_after(red, active, label) ==
    IF active = label THEN red \ {label}
    ELSE (red \ {active}) \cup {label}

\* The most consecutive clicks on one button that `toggles` counts.
MaxToggles == 3

\* toggles counts the clicks on one exposure button made in a row (no click
\* on another exposure button in between) since the mode was Auto.
toggles_after(t, active, label) ==
    IF t.n > 0 /\ t.label = label
      THEN IF t.n < MaxToggles THEN [t EXCEPT !.n = @ + 1]
                               ELSE [label |-> NoButton, n |-> 0]
      ELSE IF active = NoButton THEN [label |-> label, n |-> 1]
                                ELSE [label |-> NoButton, n |-> 0]

on_exposure_button_clicked(label) ==
    /\ EventLoopCallback("exposure")
    /\ ev_arg' = label
    /\ toggles' = toggles_after(toggles, active_exposure_button, label)
    /\ active_exposure_button' = exposure_button_after(active_exposure_button, label)
    /\ current_manual_settings' = manual_settings_after(active_exposure_button, label)
    /\ exp_btn_red' = exposure_red_after(exp_btn_red, active_exposure_button, label)
    /\ \E how \in ApplyOutcome :
         /\ cam_trace' = apply_calls(IF active_exposure_button = label
                                       THEN general_settings
                                       ELSE manual_settings(label), how)
         /\ cam_started' = apply_started(cam_started, how)
    /\ fired' = NoFired
    /\ UNCHANGED timervars
    /\ OtherThanGpio

-----------------------------------------------------------------------------
(* on_save_button_clicked, 3zero.py:265-275                                *)

\* Mutant of capture_allowed: the countdown flag is not looked at.
capture_always_allowed(timer_active) == TRUE

\* Whether an immediate capture request is carried out (268, 625).
capture_allowed(timer_active) == ~timer_active

\* Mutant of on_save_button_clicked: the capture clears the stored manual
\* controls.
on_save_button_clicked_clearing_controls ==
    /\ EventLoopCallback(IF capture_allowed(is_timer_countdown_active)
                           THEN "save" ELSE "save_ignored")
    /\ IF capture_allowed(is_timer_countdown_active)
         THEN \E pre_ok, cap_ok \in BOOLEAN :
                cam_trace' = save_image_calls(current_manual_settings, pre_ok, cap_ok)
                             \o reapply_calls(current_manual_settings)
         ELSE cam_trace' = <<>>
    /\ fired' = NoFired
    /\ ev_arg' = "None"
    /\ UNCHANGED toggles
    /\ current_manual_settings' = None
    /\ UNCHANGED <<active_exposure_button, exp_btn_red, cam_started, timervars>>
    /\ OtherThanGpio

on_save_button_clicked ==
    /\ EventLoopCallback(IF capture_allowed(is_timer_countdown_active)
                           THEN "save" ELSE "save_ignored")
    /\ IF capture_allowed(is_timer_countdown_active)
         THEN \E pre_ok, cap_ok \in BOOLEAN :
                cam_trace' = save_image_calls(current_manual_settings, pre_ok, cap_ok)
                             \o reapply_calls(current_manual_settings)
         ELSE cam_trace' = <<>>
    /\ fired' = NoFired
    /\ ev_arg' = "None"
    /\ UNCHANGED toggles
    /\ UNCHANGED <<expvars, timervars>>
    /\ OtherThanGpio

-----------------------------------------------------------------------------
(* Self-timer: on_timer_button_clicked 277-291,                            *)
(* delayed_capture_and_reset 599-619                                       *)

\* TIMER_DELAY_MS in ticks of the model's clock.
TimerDelayTicks == 1
\* The most callbacks scheduled and not yet fired.
MaxPending == 2
Min(a, b) == IF a < b THEN a ELSE b

\* A scheduled callback: the ticks left until it is due, and its history:
\* whether the countdown that scheduled it was cancelled, how many timer
\* presses came after the press that scheduled it (0, 1, or 2 for more), and
\* whether it was scheduled while no other callback was pending.
Scheduled(alone) ==
    [remaining |-> TimerDelayTicks, cancelled |-> FALSE, presses |-> 0,
     alone |-> alone]

Pressed(q) ==
    [i \in 1..Len(q) |-> [q[i] EXCEPT !.presses = Min(@ + 1, 2)]]

\* The countdown in progress belongs to the callback scheduled last.
CancelLast(q) ==
    [i \in 1..Len(q) |-> IF i = Len(q) THEN [q[i] EXCEPT !.cancelled = TRUE]
                                       ELSE q[i]]

on_timer_button_clicked ==
    /\ EventLoopCallback("timer_press")
    /\ IF is_timer_countdown_active
         THEN \* cancel: the scheduled callback is left in place (283)
              /\ is_timer_countdown_active' = FALSE
              /\ btn_timer_red' = FALSE
              /\ pending' = CancelLast(Pressed(pending))
         ELSE /\ Len(pending) < MaxPending
              /\ is_timer_countdown_active' = TRUE
              /\ btn_timer_red' = TRUE
              /\ pending' = Append(Pressed(pending), Scheduled(pending = <<>>))
    /\ cam_trace' = <<>>
    /\ fired' = NoFired
    /\ ev_arg' = "None"
    /\ UNCHANGED <<toggles, expvars>>
    /\ OtherThanGpio

\* Time passes: every callback not yet due gets one tick closer.
Tick ==
    /\ \E i \in 1..Len(pending) : pending[i].remaining > 0
    /\ pending' = [i \in 1..Len(pending) |->
                     [pending[i] EXCEPT !.remaining = IF @ > 0 THEN @ - 1 ELSE 0]]
    /\ UNCHANGED <<Globals, net, expvars, is_timer_countdown_active,
                   btn_timer_red>>
    /\ OtherThanEventLoop
    /\ OtherThanGpio

\* Mutant of timer_captures: the callback captures whatever the flag says.
timer_always_captures(timer_active) == TRUE

\* capture_done (602-610): the callback captures when the flag is set.
timer_captures(timer_active) == timer_active

\* Mutant of delayed_capture_and_reset: lines 613-615 left out.
delayed_capture_keeping_flag ==
    /\ pending # <<>>
    /\ Head(pending).remaining = 0
    /\ EventLoopCallback("timer_callback")
    /\ fired' = Head(pending)
    /\ pending' = Tail(pending)
    /\ IF timer_captures(is_timer_countdown_active)
         THEN \E pre_ok, cap_ok \in BOOLEAN :
                cam_trace' = save_image_calls(current_manual_settings, pre_ok, cap_ok)
                             \o reapply_calls(current_manual_settings)
         ELSE cam_trace' = <<>>
    /\ UNCHANGED <<is_timer_countdown_active, btn_timer_red>>
    /\ ev_arg' = "None"
    /\ UNCHANGED <<toggles, expvars>>
    /\ OtherThanGpio

\* The event loop runs the callback that is due first.
delayed_capture_and_reset ==
    /\ pending # <<>>
    /\ Head(pending).remaining = 0
    /\ EventLoopCallback("timer_callback")
    /\ fired' = Head(pending)
    /\ pending' = Tail(pending)
    /\ IF timer_captures(is_timer_countdown_active)
         THEN \E pre_ok, cap_ok \in BOOLEAN :
                cam_trace' = save_image_calls(current_manual_settings, pre_ok, cap_ok)
                             \o reapply_calls(current_manual_settings)
         ELSE cam_trace' = <<>>
    /\ is_timer_countdown_active' = FALSE
    /\ btn_timer_red' = FALSE
    /\ ev_arg' = "None"
    /\ UNCHANGED <<toggles, expvars>>
    /\ OtherThanGpio

-----------------------------------------------------------------------------
(* handle_capture_press, 3zero.py:622-639: gpiozero runs the when_pressed   *)
(* handler on its own thread, so its steps interleave with the event loop's *)
(* callbacks.                                                               *)

NotGpio == <<Globals, net, expvars, timervars>>

\* Line 625: the press is dropped while the countdown flag is set.
handle_capture_press ==
    /\ gpio_pc = "idle"
    /\ gpio_trace' = <<>>
    /\ IF capture_allowed(is_timer_countdown_active)
         THEN gpio_pc' = "save_image" /\ gpio_handler' = "capture"
         ELSE gpio_pc' = "idle" /\ gpio_handler' = "ignored"
    /\ UNCHANGED NotGpio
    /\ OtherThanEventLoop

\* Line 629: save_image reads current_manual_settings as it is now.
gpio_save_image ==
    /\ gpio_pc = "save_image"
    /\ \E pre_ok, cap_ok \in BOOLEAN :
         gpio_trace' = save_image_calls(current_manual_settings, pre_ok, cap_ok)
    /\ gpio_pc' = "reapply"
    /\ UNCHANGED <<gpio_handler, NotGpio>>
    /\ OtherThanEventLoop

\* Line 631: and so does the reapplication.
gpio_reapply ==
    /\ gpio_pc = "reapply"
    /\ gpio_trace' = gpio_trace \o reapply_calls(current_manual_settings)
    /\ gpio_pc' = "idle"
    /\ UNCHANGED <<gpio_handler, NotGpio>>
    /\ OtherThanEventLoop

-----------------------------------------------------------------------------
Init ==
    /\ is_wifi_on = FALSE
    /\ is_ap_mode_active = FALSE
    /\ btn_wifi_red = FALSE
    /\ btn_ap_red = FALSE
    /\ btn_ap_enabled = FALSE
    /\ net = Enter("startup", FALSE)
    /\ ev_handler = "startup"
    /\ ev_pre = NoSnapshot
    /\ net_trace = <<>>
    /\ ev_arg = "None"
    /\ toggles = [label |-> "None", n |-> 0]
    /\ active_exposure_button = NoButton
    /\ current_manual_settings = None
    /\ exp_btn_red = {}
    /\ cam_started = TRUE
    /\ is_timer_countdown_active = FALSE
    /\ btn_timer_red = FALSE
    /\ pending = <<>>
    /\ fired = NoFired
    /\ cam_trace = <<>>
    /\ gpio_pc = "idle"
    /\ gpio_handler = "none"
    /\ gpio_trace = <<>>

\* The state a startup whose commands all succeeded leaves.
InitCam ==
    /\ is_wifi_on = TRUE
    /\ is_ap_mode_active = FALSE
    /\ btn_wifi_red = is_wifi_on
    /\ btn_ap_red = FALSE
    /\ btn_ap_enabled = is_wifi_on
    /\ net = Idle
    /\ ev_handler = "none"
    /\ ev_pre = NoSnapshot
    /\ net_trace = <<>>
    /\ ev_arg = "None"
    /\ toggles = [label |-> "None", n |-> 0]
    /\ active_exposure_button = NoButton
    /\ current_manual_settings = None
    /\ exp_btn_red = {}
    /\ cam_started = TRUE
    /\ is_timer_countdown_active = FALSE
    /\ btn_timer_red = FALSE
    /\ pending = <<>>
    /\ fired = NoFired
    /\ cam_trace = <<>>
    /\ gpio_pc = "idle"
    /\ gpio_handler = "none"
    /\ gpio_trace = <<>>

\* Startup and the WiFi and AP buttons.
NextNet ==
    \/ startup_step
    \/ on_wifi_button_clicked
    \/ on_ap_button_clicked
    \/ start_client_mode_step
    \/ start_ap_mode_step
    \/ stop_client_mode_step
    \/ stop_ap_mode_step
    \/ wifi_rollback_block
    \/ wifi_off_block

\* The exposure buttons, the capture requests and the self-timer.
NextCam ==
    \/ \E label \in Labels : on_exposure_button_clicked(label)
    \/ on_save_button_clicked
    \/ on_timer_button_clicked
    \/ Tick
    \/ delayed_capture_and_reset
    \/ handle_capture_press
    \/ gpio_save_image
    \/ gpio_reapply

Next == NextNet \/ NextCam

\* The whole program.
Spec == Init /\ [][Next]_vars

\* The network mode controller alone, from startup.
SpecNet == Init /\ [][NextNet]_vars

\* The camera and timer handlers alone, once startup is over.
SpecCam == InitCam /\ [][NextCam]_vars

\* The same, with time passing and the event loop delivering every callback
\* that is due: QTimer fires a singleShot once its delay is over, and the
\* event loop is never blocked for good.
SpecCamFair ==
    /\ SpecCam
    /\ WF_vars(Tick)
    /\ WF_vars(delayed_capture_and_reset)

\* The camera side as the GUI construction leaves it: Auto, camera started,
\* no countdown, no callback scheduled, no physical press in progress.
CamAtRest ==
    /\ active_exposure_button = NoButton
    /\ current_manual_settings = None
    /\ exp_btn_red = {}
    /\ cam_started
    /\ ~is_timer_countdown_active /\ ~btn_timer_red
    /\ pending = <<>>
    /\ toggles.n = 0
    /\ gpio_pc = "idle"

\* Every handler of the program from startup on. The network handlers read
\* and write the network variables only and the camera, timer and physical
\* button handlers the camera variables only, so a run of the program is a
\* run of the one interleaved with a run of the other; the network handlers
\* are explored with the camera side at rest, the camera handlers in every
\* network state.
NextApp ==
    \/ CamAtRest /\ NextNet
    \/ NextCam

SpecApp == Init /\ [][NextApp]_vars

-----------------------------------------------------------------------------
(* Reading the logs                                                        *)

\* The positions of net_trace where command c was issued.
Issued(c) == {i \in 1..Len(net_trace) : net_trace[i].cmd = c}

\* The positions where function f was called as a revert.
RevertCalls(f) ==
    {i \in 1..Len(net_trace) :
        net_trace[i].fn = f /\ net_trace[i].cmd = "enter" /\ net_trace[i].rev}

\* A hard-requirement step of the entry sequence the handler was switching
\* to failed (a failure inside the revert is not one).
HardFailed ==
    \E i \in 1..Len(net_trace) : net_trace[i].failed /\ ~net_trace[i].rev

\* The revert itself hit a hard failure.
RevertFailed ==
    \E i \in 1..Len(net_trace) : net_trace[i].failed /\ net_trace[i].rev

\* Command c of function f, not run as a revert, failed.
FailedIn(f, c) ==
    \E i \in 1..Len(net_trace) :
        /\ net_trace[i].fn = f /\ net_trace[i].cmd = c
        /\ net_trace[i].failed /\ ~net_trace[i].rev

\* The event-loop callback `name` has returned.
Returned(name) == ev_handler = name /\ net.fn = "idle"

RADIO_OFF == ~is_wifi_on /\ ~is_ap_mode_active
CLIENT == is_wifi_on /\ ~is_ap_mode_active
ACCESS_POINT == is_wifi_on /\ is_ap_mode_active

-----------------------------------------------------------------------------
(* Claims                                                                  *)

\* C1: WiFi-ON from RADIO_OFF in which a hard-requirement step of the client
\* entry sequence (radio unblock, start nmbd, start smbd) failed ends with
\* the recorded state RADIO_OFF, and the radio-block rollback command was
\* issued exactly once during the transition.
C1_WifiOnFailureRollsBack ==
    (Returned("wifi_on") /\ HardFailed) =>
        /\ ~ev_pre.wifi
        /\ RADIO_OFF
        /\ Cardinality(Issued("rfkill_block")) = 1

\* C1 witness: a WiFi-ON that got as far as start smbd, which failed.
C1_Witness ==
    /\ Returned("wifi_on")
    /\ FailedIn("start_client_mode", "start_smbd")

\* C2 as claimed: Client -> AP with the hotspot creation failing ends in
\* CLIENT, and in the whole transition neither the stabilization delay nor
\* any Samba start (nmbd, smbd) was invoked.
C2_NoSambaStartInWholeTransition ==
    (Returned("ap_on") /\ FailedIn("start_ap_mode", "nmcli_hotspot")) =>
        /\ CLIENT
        /\ Issued("sleep") = {}
        /\ Issued("start_nmbd") = {}
        /\ Issued("start_smbd") = {}

\* C2 amended: Client -> AP with the hotspot creation failing ends in CLIENT,
\* the stabilization delay was never invoked, and the AP entry sequence
\* issued no Samba start: every Samba start of the transition was issued by
\* the client entry sequence run as the revert.
C2_NoSambaStartInApEntry ==
    (Returned("ap_on") /\ FailedIn("start_ap_mode", "nmcli_hotspot")) =>
        /\ CLIENT
        /\ Issued("sleep") = {}
        /\ \A i \in Issued("start_nmbd") \cup Issued("start_smbd") :
              net_trace[i].fn = "start_client_mode" /\ net_trace[i].rev

\* C2 witness: the hotspot failed and the revert started both Samba services.
C2_Witness ==
    /\ Returned("ap_on")
    /\ FailedIn("start_ap_mode", "nmcli_hotspot")
    /\ Issued("start_nmbd") # {}
    /\ Issued("start_smbd") # {}

\* C3: an AP-button switch in which a hard-requirement step of the target
\* mode's entry sequence failed called the entry sequence of the pre-switch
\* mode exactly once as a revert, and whatever that revert did the recorded
\* mode is the pre-switch mode, the radio still recorded on, and no radio
\* block was issued.
C3_FailedSwitchRevertsOnce ==
    ((Returned("ap_on") \/ Returned("ap_off")) /\ HardFailed) =>
        /\ Cardinality(RevertCalls(IF ev_pre.ap THEN "start_ap_mode"
                                                ELSE "start_client_mode")) = 1
        /\ Cardinality(RevertCalls(IF ev_pre.ap THEN "start_client_mode"
                                                ELSE "start_ap_mode")) = 0
        /\ is_ap_mode_active = ev_pre.ap
        /\ is_wifi_on /\ ev_pre.wifi
        /\ Issued("rfkill_block") = {}

\* C3 witness: AP -> Client failed, and so did the revert to AP.
C3_Witness ==
    /\ Returned("ap_off")
    /\ HardFailed
    /\ RevertFailed

\* C4: after WiFi-OFF from CLIENT or ACCESS_POINT, the recorded state is the
\* pre-transition mode if the radio-block command failed, and RADIO_OFF if
\* it succeeded.
C4_WifiOffFollowsBlock ==
    Returned("wifi_off") =>
        /\ ev_pre.wifi
        /\ Cardinality(Issued("rfkill_block")) = 1
        /\ IF FailedIn("on_wifi_button_clicked", "rfkill_block")
             THEN is_wifi_on /\ is_ap_mode_active = ev_pre.ap
             ELSE RADIO_OFF

\* C4 witness: WiFi-OFF from ACCESS_POINT whose radio block failed.
C4_Witness ==
    /\ Returned("wifi_off")
    /\ ev_pre.ap
    /\ FailedIn("on_wifi_button_clicked", "rfkill_block")

\* The positions of log t holding a call of `name`.
Calls(t, name) == {i \in 1..Len(t) : t[i].call = name}

\* C5: from a timer press made while no other callback is pending, a second
\* press before the callback fires (and no further one) cancels the
\* countdown, and the callback then captures nothing; with no second press
\* the callback captures exactly once.
C5_TimerTwiceCancelsOnceCaptures ==
    (ev_handler = "timer_callback" /\ fired.alone) =>
        /\ fired.presses = 1 =>
              /\ fired.cancelled
              /\ Calls(cam_trace, "save_image") = {}
              /\ Calls(cam_trace, "switch_mode_and_capture_file") = {}
        /\ fired.presses = 0 =>
              /\ ~fired.cancelled
              /\ Cardinality(Calls(cam_trace, "save_image")) = 1
        /\ ~is_timer_countdown_active

\* C5 witness: the callback of a countdown cancelled by the second press has
\* fired.
C5_Witness ==
    /\ ev_handler = "timer_callback"
    /\ fired.alone /\ fired.presses = 1
    /\ cam_trace = <<>>

\* C6 as claimed: the callback scheduled by a countdown that was cancelled
\* captures nothing when it fires, whatever happened in between.
C6_CancelledCallbackNeverCaptures ==
    (ev_handler = "timer_callback" /\ fired.cancelled) =>
        Calls(cam_trace, "save_image") = {}

\* C7: an immediate capture request (GUI save button or physical button)
\* made while the countdown flag is set makes no capture and no camera call,
\* and leaves the flag, the pending callbacks and the exposure mode as they
\* are.
C7_ImmediateCaptureIgnoredWhileCounting ==
    [][ /\ (is_timer_countdown_active /\ on_save_button_clicked) =>
              /\ cam_trace' = <<>>
              /\ UNCHANGED <<timervars, expvars, gpio_pc>>
        /\ (is_timer_countdown_active /\ handle_capture_press) =>
              /\ gpio_trace' = <<>>
              /\ gpio_pc' = "idle"
              /\ UNCHANGED <<timervars, expvars>> ]_vars

\* C7 witness: the GUI save button was pressed during a countdown whose
\* callback is still pending.
C7_Witness ==
    /\ ev_handler = "save_ignored"
    /\ is_timer_countdown_active
    /\ pending # <<>>

\* A log in which the capture primitive was called exactly once, carrying
\* controls c, then followed by exactly one set_controls(c) when c is a
\* manual setting and by no set_controls when it is none (Auto).
CaptureThenReapply(t) ==
    /\ Cardinality(Calls(t, "switch_mode_and_capture_file")) = 1
    /\ \A i \in Calls(t, "switch_mode_and_capture_file") :
          LET c == t[i].arg
              after == {j \in Calls(t, "set_controls") : j > i}
          IN  /\ Calls(t, "set_controls") = after
              /\ IF c # None
                   THEN Cardinality(after) = 1 /\ \A j \in after : t[j].arg = c
                   ELSE after = {}

\* C8 as claimed, for every capture that reached the capture primitive: the
\* handler called it exactly once, with the controls of the mode it was
\* taken in, and then reapplied exactly those controls, once (not at all in
\* Auto), before it returned.
C8_CaptureReappliesSameControls ==
    /\ (ev_handler \in {"save", "timer_callback"}
          /\ Calls(cam_trace, "switch_mode_and_capture_file") # {}) =>
          /\ CaptureThenReapply(cam_trace)
          /\ \A i \in Calls(cam_trace, "switch_mode_and_capture_file") :
                cam_trace[i].arg = ev_pre.cms
    /\ (gpio_handler = "capture" /\ gpio_pc = "idle"
          /\ Calls(gpio_trace, "switch_mode_and_capture_file") # {}) =>
          CaptureThenReapply(gpio_trace)

\* C9: after n clicks in a row on one exposure button p, starting from Auto,
\* the mode is Manual(p) when n is odd and Auto when n is even, whether the
\* camera calls succeeded or not.
C9_TogglesAlternate ==
    toggles.n > 0 =>
        IF toggles.n % 2 = 1
          THEN /\ active_exposure_button = toggles.label
               /\ current_manual_settings = manual_settings(toggles.label)
          ELSE /\ active_exposure_button = NoButton
               /\ current_manual_settings = None

\* C9 witness: the third click in a row, with set_controls and the fallback
\* both failing.
C9_Witness ==
    /\ toggles.n = 3
    /\ ev_handler = "exposure"
    /\ \E i \in 1..Len(cam_trace) : cam_trace[i].call # "set_controls" /\ ~cam_trace[i].ok

\* C10: a click on a preset p2 that is not the active one yields Manual(p2),
\* from Auto or from Manual(p1): exactly one button is active, and the
\* stored controls carry p2's exposure time.
C10_OtherPresetReplaces ==
    (ev_handler = "exposure" /\ ev_arg # ev_pre.active) =>
        /\ active_exposure_button = ev_arg
        /\ exp_btn_red = {ev_arg}
        /\ current_manual_settings = manual_settings(ev_arg)
        /\ current_manual_settings.ExposureTime = exposure_times[ev_arg]
        /\ ev_pre.active # NoButton =>
              current_manual_settings.ExposureTime # exposure_times[ev_pre.active]

\* C10 witness: the click replaced another active preset.
C10_Witness ==
    /\ ev_handler = "exposure"
    /\ ev_pre.active \notin {NoButton, ev_arg}

\* C11 as claimed: in the client entry sequence and in the AP entry sequence,
\* once a hard-requirement step has failed, no later step of that same entry
\* sequence is executed.
C11_NoStepAfterHardFailure ==
    \A i, j \in 1..Len(net_trace) :
        (/\ i < j
         /\ net_trace[i].fn \in {"start_client_mode", "start_ap_mode"}
         /\ net_trace[i].failed) =>
            net_trace[j].fn # net_trace[i].fn

\* An ignorable command is the next one of the running sequence.
IgnorableNext(f, cmds) == net.fn = f /\ cmds[net.step].ignore_fail

\* C12: whatever the outcome of an ignorable step (teardown commands, the
\* dnsmasq commands, client connection up), the sequence goes on exactly as
\* it does when the step succeeds: the step taken is the step the outcome
\* Success gives, in the next command, the locals, the result returned and
\* the recorded state.
C12_IgnorableFailureChangesNothing ==
    [][ /\ IgnorableNext("startup", startup_commands) =>
              \E lo \in BOOLEAN : startup_run("Success", lo)
        /\ IgnorableNext("start_client_mode", start_client_mode_cmds) =>
              \E lo \in BOOLEAN : start_client_mode_run("Success", lo)
        /\ IgnorableNext("start_ap_mode", start_ap_mode_cmds) =>
              \E lo \in BOOLEAN : start_ap_mode_run("Success", lo)
        /\ IgnorableNext("stop_client_mode", stop_client_mode_cmds) =>
              \E lo \in BOOLEAN : stop_client_mode_run("Success", lo)
        /\ IgnorableNext("stop_ap_mode", stop_ap_mode_cmds) =>
              \E lo \in BOOLEAN : stop_ap_mode_run("Success", lo) ]_vars

\* C12 witness: a WiFi-ON in which run_system_command returned False for the
\* client connection-up command and for the dnsmasq start (a timeout or a
\* missing executable: a nonzero exit returns True there) has ended in CLIENT.
C12_Witness ==
    /\ Returned("wifi_on")
    /\ CLIENT
    /\ \E i \in Issued("nmcli_up_client") : ~net_trace[i].returned
    /\ \E i \in Issued("start_dnsmasq") : ~net_trace[i].returned

\* A step of the network handler that is running.
NetStep ==
    \/ startup_step
    \/ start_client_mode_step
    \/ start_ap_mode_step
    \/ stop_client_mode_step
    \/ stop_ap_mode_step
    \/ wifi_rollback_block
    \/ wifi_off_block

\* The most log entries one network handler makes: a teardown, an entry
\* sequence and the other entry sequence as the revert, one command each
\* step, and the three calls.
LongestHandler ==
    Len(stop_ap_mode_cmds) + Len(start_client_mode_cmds)
        + Len(start_ap_mode_cmds) + 3

\* Whatever the commands and the camera calls did: a running handler has a
\* next step, no handler has made more than a fixed number of calls, and
\* between handlers NetworkState is RADIO_OFF, CLIENT or ACCESS_POINT and
\* TimerState is Idle or Counting.
HandlersBounded ==
    /\ Len(net_trace) <= LongestHandler
    /\ Len(cam_trace) <= 4
    /\ Len(gpio_trace) <= 3
    /\ net.fn # "idle" => ENABLED NetStep
    /\ gpio_pc # "idle" => ENABLED (gpio_save_image \/ gpio_reapply)
    /\ net.fn = "idle" => (RADIO_OFF \/ CLIENT \/ ACCESS_POINT)
    /\ is_timer_countdown_active \in BOOLEAN
    /\ btn_timer_red = is_timer_countdown_active

\* C13: failures never terminate the application. For every combination of
\* command outcomes and camera-call failures every handler runs a bounded
\* number of steps (each step of a network handler adds to its log, whose
\* length is bounded) and returns, leaving NetworkState one of RADIO_OFF /
\* CLIENT / ACCESS_POINT and TimerState one of Idle / Counting.
C13_FailuresNeverTerminate ==
    /\ []HandlersBounded
    /\ [][net.fn # "idle" => Len(net_trace') > Len(net_trace)]_vars

\* C13 witness: the longest handler run has returned: AP -> Client whose
\* last entry command failed, followed by the complete revert.
C13_Witness ==
    /\ Returned("ap_off")
    /\ Len(net_trace) = LongestHandler
    /\ HardFailed

\* C14: an AP-button press while the radio is recorded off executes no
\* external command (the handler has returned, with nothing issued) and
\* leaves is_wifi_on and is_ap_mode_active unchanged.
C14_ApPressIgnoredWhenRadioOff ==
    [][(~is_wifi_on /\ on_ap_button_clicked) =>
          /\ net' = Idle
          /\ net_trace' = <<>>
          /\ UNCHANGED <<is_wifi_on, is_ap_mode_active>> ]_vars

\* C14 witness: the AP button was pressed in RADIO_OFF.
C14_Witness ==
    /\ ev_handler = "ap_ignored"
    /\ ev_pre.wifi = FALSE
    /\ RADIO_OFF

\* C15: an exposure click calls set_controls first, with the controls of the
\* requested mode; the stop / configure / start fallback runs only when that
\* call failed; and when the fallback fails too the recorded mode is the
\* requested one all the same.
C15_FallbackOnlyAfterSetControlsFailed ==
    ev_handler = "exposure" =>
        LET to_auto == ev_arg = ev_pre.active
            wanted == IF to_auto THEN general_settings ELSE manual_settings(ev_arg)
            fallback == {i \in 2..Len(cam_trace) :
                            cam_trace[i].call \in {"stop", "configure", "start"}}
        IN  /\ Len(cam_trace) >= 1
            /\ cam_trace[1].call = "set_controls"
            /\ cam_trace[1].arg = wanted
            /\ Calls(cam_trace, "set_controls") = {1}
            /\ fallback = 2..Len(cam_trace)
            /\ fallback # {} => ~cam_trace[1].ok
            /\ ~cam_trace[1].ok => fallback # {}
            /\ active_exposure_button = (IF to_auto THEN NoButton ELSE ev_arg)
            /\ current_manual_settings = (IF to_auto THEN None ELSE manual_settings(ev_arg))

\* C15 witness: set_controls raised and then the fallback raised in start(),
\* on a click that asked for a manual preset.
C15_Witness ==
    /\ ev_handler = "exposure"
    /\ ev_arg # ev_pre.active
    /\ ~cam_trace[1].ok
    /\ cam_trace[Len(cam_trace)].call = "start"
    /\ ~cam_trace[Len(cam_trace)].ok
    /\ active_exposure_button = ev_arg

\* C16 as claimed: no callback of the event loop that captures or changes
\* state (capture, exposure click, timer press, timer callback) starts while
\* the physical-press handler is in progress.
C16_NoCallbackDuringPhysicalPress ==
    ev_handler \in {"save", "exposure", "timer_press", "timer_callback"} =>
        ev_pre.gpio = "idle"

\* C17: startup issues its four commands in order (radio unblock, client
\* connection up, start nmbd, start smbd) whatever the earlier ones did, and
\* the initial recorded state is CLIENT exactly when unblock, nmbd and smbd
\* all succeeded, whatever connection-up did; otherwise it is RADIO_OFF.
C17_StartupResynchronisation ==
    Returned("startup") =>
        /\ [i \in 1..Len(net_trace) |-> net_trace[i].cmd]
              = <<"rfkill_unblock", "nmcli_up_client", "start_nmbd", "start_smbd">>
        /\ IF \A i \in {1, 3, 4} : net_trace[i].returned
             THEN CLIENT
             ELSE RADIO_OFF

\* C17 witness: the unblock failed, the three later commands were issued all
\* the same and succeeded, and the recorded state is RADIO_OFF.
C17_Witness ==
    /\ Returned("startup")
    /\ Len(net_trace) = 4
    /\ ~net_trace[1].returned
    /\ \A i \in {2, 3, 4} : net_trace[i].returned
    /\ RADIO_OFF

\* C18: whenever the self-timer callback fires, TimerState is Idle
\* afterwards, whether it captured or found the countdown cancelled; and,
\* every scheduled callback firing in the end, every Counting state is
\* followed by an Idle state.
C18_TimerAlwaysReturnsToIdle ==
    /\ [][delayed_capture_and_reset =>
            ~is_timer_countdown_active' /\ ~btn_timer_red']_vars
    /\ (is_timer_countdown_active ~> ~is_timer_countdown_active)

\* C18 witness: a callback has fired while the countdown was running, has
\* captured, and has left the timer Idle.
C18_Witness ==
    /\ ev_handler = "timer_callback"
    /\ ev_pre.timer
    /\ cam_trace # <<>>
    /\ ~is_timer_countdown_active

\* The positions of net_trace where function f ran command c.
IssuedBy(f, c) ==
    {i \in 1..Len(net_trace) : net_trace[i].fn = f /\ net_trace[i].cmd = c}

\* C19: in the AP entry sequence the stabilization delay happens at most
\* once, only after the radio unblock and the hotspot creation have both
\* succeeded, and before the first Samba start; it is never executed when
\* the unblock or the hotspot creation failed; and a Client -> AP transition
\* that succeeded has executed it exactly once.
C19_DelayBetweenHotspotAndSamba ==
    LET sleeps == IssuedBy("start_ap_mode", "sleep")
        samba == IssuedBy("start_ap_mode", "start_nmbd")
                    \cup IssuedBy("start_ap_mode", "start_smbd")
        first == IssuedBy("start_ap_mode", "rfkill_unblock")
                    \cup IssuedBy("start_ap_mode", "nmcli_hotspot")
    IN  /\ Cardinality(sleeps) <= 1
        /\ \A i \in sleeps :
              /\ \E j \in IssuedBy("start_ap_mode", "rfkill_unblock") :
                    j < i /\ net_trace[j].returned
              /\ \E j \in IssuedBy("start_ap_mode", "nmcli_hotspot") :
                    j < i /\ net_trace[j].returned
        /\ \A i \in samba : \E k \in sleeps : k < i
        /\ (\E j \in first : ~net_trace[j].returned) => sleeps = {}
        /\ (Returned("ap_on") /\ ACCESS_POINT) => Cardinality(sleeps) = 1

\* C19 witness: a Client -> AP transition has succeeded.
C19_Witness ==
    /\ Returned("ap_on")
    /\ ACCESS_POINT
    /\ IssuedBy("start_ap_mode", "sleep") # {}
    /\ IssuedBy("start_ap_mode", "start_smbd") # {}

\* C20: at startup and in every entry sequence a start-smbd command is
\* issued only after a start-nmbd command of the same sequence, and in the
\* client entry sequence only after one that succeeded.
C20_NmbdBeforeSmbd ==
    \A i \in Issued("start_smbd") :
        \E j \in Issued("start_nmbd") :
            /\ j < i
            /\ net_trace[j].fn = net_trace[i].fn
            /\ net_trace[i].fn = "start_client_mode" => net_trace[j].returned

\* C20 witness: a Client -> AP switch whose AP entry sequence started smbd
\* after nmbd had failed, and whose revert then started nmbd and smbd in the
\* client entry sequence.
C20_Witness ==
    /\ Returned("ap_on")
    /\ \E j \in IssuedBy("start_ap_mode", "start_nmbd") : ~net_trace[j].returned
    /\ IssuedBy("start_ap_mode", "start_smbd") # {}
    /\ IssuedBy("start_client_mode", "start_smbd") # {}

\* The commands function f has run, in order.
CommandsOf(f) ==
    LET at == SelectSeq(net_trace, LAMBDA e : e.fn = f /\ e.cmd # "enter")
    IN  [i \in 1..Len(at) |-> at[i].cmd]

\* C21: the outcome of WiFi-OFF depends on the radio-block command only.
\* Whatever the teardown commands returned, the teardown ran to its end, the
\* block was issued once, and RADIO_OFF is recorded if and only if the block
\* succeeded (the pre-transition mode stays recorded otherwise); the
\* teardown is the AP teardown exactly when ACCESS_POINT was recorded.
C21_WifiOffDependsOnBlockOnly ==
    Returned("wifi_off") =>
        LET teardown == IF ev_pre.ap THEN "stop_ap_mode" ELSE "stop_client_mode"
            other == IF ev_pre.ap THEN "stop_client_mode" ELSE "stop_ap_mode"
            cmds == IF ev_pre.ap THEN stop_ap_mode_cmds ELSE stop_client_mode_cmds
        IN  /\ CommandsOf(teardown) = [i \in 1..Len(cmds) |-> cmds[i].cmd]
            /\ CommandsOf(other) = <<>>
            /\ Cardinality(Issued("rfkill_block")) = 1
            /\ \A i \in Issued("rfkill_block") :
                  /\ i = Len(net_trace)
                  /\ RADIO_OFF <=> net_trace[i].returned
                  /\ ~net_trace[i].returned =>
                        is_wifi_on /\ is_ap_mode_active = ev_pre.ap

\* C21 witness: WiFi-OFF from ACCESS_POINT in which run_system_command
\* returned False for every teardown command, and the block succeeded.
C21_Witness ==
    /\ Returned("wifi_off")
    /\ ev_pre.ap
    /\ \A i \in 1..Len(net_trace) :
          net_trace[i].fn = "stop_ap_mode" /\ net_trace[i].cmd # "enter"
              => ~net_trace[i].returned
    /\ RADIO_OFF

\* C22 as claimed: whatever camera calls failed, the camera is started when
\* an exposure click returns.
C22_CameraStartedAfterToggle ==
    ev_handler = "exposure" => cam_started

\* C23 as claimed: when the timer callback captures, the full delay has
\* elapsed since the press that armed the countdown in progress, that is,
\* the callback scheduled by that press (the one scheduled last) is the one
\* firing, or is due as well.
C23_TimerCaptureOnlyAfterFullDelay ==
    (ev_handler = "timer_callback" /\ Calls(cam_trace, "save_image") # {}) =>
        \/ pending = <<>>
        \/ pending[Len(pending)].remaining = 0

\* C24: in every reachable state, whatever the commands did, AP mode is
\* recorded only with the radio recorded on: the recorded network state is
\* RADIO_OFF, CLIENT or ACCESS_POINT, never radio off with AP active.
C24_ApActiveImpliesWifiOn ==
    /\ is_ap_mode_active => is_wifi_on
    /\ RADIO_OFF \/ CLIENT \/ ACCESS_POINT

\* C24 witness: a WiFi-OFF from ACCESS_POINT has recorded the radio off.
C24_Witness ==
    /\ Returned("wifi_off")
    /\ ev_pre.wifi /\ ev_pre.ap
    /\ ~is_wifi_on

\* The positions where the running handler told the radio something.
RadioCommands == Issued("rfkill_unblock") \cup Issued("rfkill_block")

\* C25 as claimed: between handlers, startup included, when RADIO_OFF is
\* recorded the last command the program gave the radio was a block: the
\* handler that has just returned issued no radio command at all (leaving
\* RADIO_OFF as it found it), or its last one was the block.
C25_RadioOffOnlyAfterBlock ==
    (net.fn = "idle" /\ RADIO_OFF) =>
        /\ RadioCommands = {} => (~ev_pre.wifi /\ ev_handler # "startup")
        /\ \A i \in RadioCommands :
              (\A j \in RadioCommands : j <= i) => net_trace[i].cmd = "rfkill_block"

\* C26: between handlers, whatever the commands did, the buttons show the
\* recorded network state: the WiFi button is highlighted iff is_wifi_on,
\* the AP button is enabled iff is_wifi_on, and the AP button is highlighted
\* iff is_ap_mode_active.
C26_ButtonsFollowRecordedState ==
    net.fn = "idle" =>
        /\ btn_wifi_red <=> is_wifi_on
        /\ btn_ap_enabled <=> is_wifi_on
        /\ btn_ap_red <=> is_ap_mode_active

\* C26 witness: a WiFi-OFF from ACCESS_POINT whose radio block failed has
\* returned with both buttons highlighted again.
C26_Witness ==
    /\ Returned("wifi_off")
    /\ ev_pre.ap
    /\ \E i \in Issued("rfkill_block") : ~net_trace[i].returned
    /\ btn_wifi_red /\ btn_ap_red /\ btn_ap_enabled

\* The recorded state owned by each controller.
NetworkState == <<is_wifi_on, is_ap_mode_active>>
ExposureMode == <<active_exposure_button, current_manual_settings>>
TimerState == is_timer_countdown_active

C28_ExposureVariablesAgree ==
    /\ active_exposure_button = NoButton <=> current_manual_settings = None
    /\ active_exposure_button # NoButton =>
         /\ current_manual_settings.AeEnable = FALSE
         /\ current_manual_settings.AwbEnable = TRUE
         /\ current_manual_settings.AnalogueGain = 1
         /\ current_manual_settings.ExposureTime
              = exposure_times[active_exposure_button]

\* C28 witness: a click has moved the mode from one preset to another, and
\* the camera refused the new controls on every path.
C28_Witness ==
    /\ ev_handler = "exposure"
    /\ ev_pre.active # NoButton
    /\ active_exposure_button # NoButton
    /\ active_exposure_button # ev_pre.active
    /\ ~cam_started

====
